---- MODULE Spec2Model ----
(***************************************************************************)
(* The POST /summarize request pipeline of ai-news-summarizer.              *)
(*                                                                         *)
(* The repository holds two server programs:                               *)
(*   "part_000" : src/unnamed/part_000  (summarize in English, then         *)
(*                translateText)                                           *)
(*   "index"    : src/server/index.js   (one model call, the language       *)
(*                prompt is part of the summarization request)             *)
(* The variable server says which of the two programs is running.          *)
(*                                                                         *)
(* Representation of JavaScript values:                                    *)
(*   - a request field is a string; Undefined stands for a missing field;   *)
(*   - a text (article text, prompt, summary) is a sequence of string       *)
(*     tokens: a template literal `${a}\n\n${b}` is the concatenation       *)
(*     a \o <<"\n\n">> \o b; an article character is a one-character token; *)
(*   - an optional value is a sequence of length 0 (absent) or 1.           *)
(***************************************************************************)
EXTENDS Integers, Sequences, FiniteSets, TLC

\* Longest article text / model completion drawn as an input.
MaxTextLen == 2

\* A missing field of the JSON body (JavaScript undefined).
Undefined == "<undefined>"
\* JavaScript null (translationPrompt of english).
Null == "<null>"

\* !v for a string-valued v: undefined, null and "" are falsy.
Falsy(v) == v \in {Undefined, Null, ""}

\* Names every object literal inherits from Object.prototype: obj[name] is a
\* function (or, for __proto__, an object), hence truthy, without being an
\* own key of obj.
ObjectPrototypeKeys ==
  {"constructor", "__defineGetter__", "__defineSetter__", "hasOwnProperty",
   "__lookupGetter__", "__lookupSetter__", "isPrototypeOf",
   "propertyIsEnumerable", "toString", "valueOf", "__proto__", "toLocaleString"}

\* String(obj[name]) for an inherited name, as a template literal renders it:
\* obj.__proto__ is Object.prototype, obj.constructor is the function Object,
\* and every other name is a function of that name.
InheritedToString(name) ==
  IF name = "__proto__" THEN "[object Object]"
  ELSE IF name = "constructor" THEN "function Object() { [native code] }"
  ELSE "function " \o name \o "() { [native code] }"

(***************************************************************************)
(* Registries of part_000.  String literals are the source's, with         *)
(* diacritics folded to ASCII; a literal in a non-Latin script is stood    *)
(* for by a tagged English rendering that names its source line.           *)
(***************************************************************************)
LANGUAGES ==
  [english |-> [code |-> "en",
                systemPrompt |-> "You are a professional news summarizer. Create concise, accurate summaries that capture the main points while maintaining context and key details. Format the summary in a clear, readable way with bullet points for key takeaways.",
                translationPrompt |-> Null],
   bosnian |-> [code |-> "bs",
                systemPrompt |-> "Vi ste profesionalni rezimator vijesti. Kreirajte sazete, precizne sazetke koji obuhvataju glavne tacke uz ocuvanje konteksta i kljucnih detalja. Formatirajte sazetak na jasan, citljiv nacin sa tackama za kljucne zakljucke.",
                translationPrompt |-> "Translate the following text to Bosnian/Serbian/Croatian (BSC), maintaining the bullet point format and ensuring the translation is natural and fluent:"],
   german  |-> [code |-> "de",
                systemPrompt |-> "Sie sind ein professioneller Nachrichtenzusammenfasser. Erstellen Sie pragnante, genaue Zusammenfassungen, die die Hauptpunkte erfassen und dabei Kontext und wichtige Details beibehalten. Formatieren Sie die Zusammenfassung ubersichtlich mit Aufzahlungspunkten fur die wichtigsten Erkenntnisse.",
                translationPrompt |-> "Translate the following text to German, maintaining the bullet point format and ensuring the translation is natural and fluent:"],
   french  |-> [code |-> "fr",
                systemPrompt |-> "Vous etes un resumeur professionnel d'actualites. Creez des resumes concis et precis qui capturent les points principaux tout en maintenant le contexte et les details cles. Formatez le resume de maniere claire et lisible avec des puces pour les points essentiels.",
                translationPrompt |-> "Translate the following text to French, maintaining the bullet point format and ensuring the translation is natural and fluent:"],
   spanish |-> [code |-> "es",
                systemPrompt |-> "Eres un resumidor profesional de noticias. Crea resumenes concisos y precisos que capturen los puntos principales mientras mantienes el contexto y los detalles clave. Formatea el resumen de manera clara y legible con vinetas para los puntos clave.",
                translationPrompt |-> "Translate the following text to Spanish, maintaining the bullet point format and ensuring the translation is natural and fluent:"],
   italian |-> [code |-> "it",
                systemPrompt |-> "Sei un riassuntore professionale di notizie. Crea riassunti concisi e accurati che catturino i punti principali mantenendo il contesto e i dettagli chiave. Formatta il riassunto in modo chiaro e leggibile con punti elenco per i punti chiave.",
                translationPrompt |-> "Translate the following text to Italian, maintaining the bullet point format and ensuring the translation is natural and fluent:"],
   turkish |-> [code |-> "tr",
                systemPrompt |-> "Profesyonel bir haber ozetleyicisisiniz. Baglami ve onemli detaylari korurken ana noktalari yakalayan ozlu, dogru ozetler olusturun. Ozeti, onemli noktalar icin madde isaretleriyle net ve okunabilir bir sekilde bicimlendirin.",
                translationPrompt |-> "Translate the following text to Turkish, maintaining the bullet point format and ensuring the translation is natural and fluent:"],
   chinese |-> [code |-> "zh",
                systemPrompt |-> "[zh] You are a professional news summarizer ... (non-Latin script, part_000 line 62)",
                translationPrompt |-> "Translate the following text to Chinese (Simplified), maintaining the bullet point format and ensuring the translation is natural and fluent:"],
   russian |-> [code |-> "ru",
                systemPrompt |-> "[ru] You are a professional news summarizer ... (non-Latin script, part_000 line 67)",
                translationPrompt |-> "Translate the following text to Russian, maintaining the bullet point format and ensuring the translation is natural and fluent:"],
   arabic  |-> [code |-> "ar",
                systemPrompt |-> "[ar] You are a professional news summarizer ... (non-Latin script, part_000 line 72)",
                translationPrompt |-> "Translate the following text to Arabic, maintaining the bullet point format and ensuring the translation is natural and fluent. Ensure proper right-to-left formatting:"]]

lengthConfigs ==
  [short    |-> [instruction |-> "Create a very brief summary in 2-3 bullet points, focusing only on the most crucial information.",
                 maxTokens |-> 200],
   medium   |-> [instruction |-> "Provide a balanced summary with 4-5 bullet points, covering the main points and key supporting details.",
                 maxTokens |-> 350],
   detailed |-> [instruction |-> "Create a comprehensive summary with 6-8 bullet points, including main points, supporting details, and relevant context.",
                 maxTokens |-> 500]]

(***************************************************************************)
(* Registries of server/index.js                                           *)
(***************************************************************************)
LANGUAGE_PROMPTS ==
  [english |-> "Please provide a summary in English.",
   bosnian |-> "Molimo vas da sazetak dostavite na bosanskom/srpskom/hrvatskom jeziku.",
   german  |-> "Bitte geben Sie eine Zusammenfassung auf Deutsch.",
   french  |-> "Veuillez fournir un resume en francais.",
   spanish |-> "Por favor, proporcione un resumen en espanol.",
   italian |-> "Si prega di fornire un riassunto in italiano.",
   turkish |-> "Lutfen Turkce bir ozet saglayin.",
   chinese |-> "[zh] Please provide the summary in Chinese. (non-Latin script, index.js line 52)",
   russian |-> "[ru] Please provide the summary in Russian. (non-Latin script, index.js line 53)",
   arabic  |-> "[ar] Please provide the summary in Arabic. (non-Latin script, index.js line 54)"]

SUMMARY_LENGTHS ==
  [short    |-> [instruction |-> "Provide a very concise summary with 2-3 key points.",
                 maxTokens |-> 100],
   medium   |-> [instruction |-> "Provide a balanced summary with 4-5 key points.",
                 maxTokens |-> 200],
   detailed |-> [instruction |-> "Provide a comprehensive summary with 6-8 key points.",
                 maxTokens |-> 400]]

Servers == {"part_000", "index"}

\* The language table and the length table the running server validates
\* against.
LanguageTable(srv) == IF srv = "part_000" THEN LANGUAGES ELSE LANGUAGE_PROMPTS
LengthTable(srv) == IF srv = "part_000" THEN lengthConfigs ELSE SUMMARY_LENGTHS

\* Boolean(table[key]): an own key (every own value is a non-empty string or
\* an object) or a name inherited from Object.prototype.
HasTruthyProperty(table, key) ==
  key \in DOMAIN table \/ key \in ObjectPrototypeKeys

(***************************************************************************)
(* Texts                                                                   *)
(***************************************************************************)
Chars == {" ", "a"}

TextsOfLen(n) == [1..n -> Chars]
Texts == UNION {TextsOfLen(n) : n \in 0..MaxTextLen}

\* An optional value: absent, or one element of S.
Option(S) == {<<>>} \cup {<<x>> : x \in S}

\* String.prototype.trim on a text: leading and trailing blanks removed.
RECURSIVE TrimStart(_)
TrimStart(t) ==
  IF t = <<>> THEN <<>>
  ELSE IF Head(t) = " " THEN TrimStart(Tail(t)) ELSE t

RECURSIVE TrimEnd(_)
TrimEnd(t) ==
  IF t = <<>> THEN <<>>
  ELSE IF t[Len(t)] = " " THEN TrimEnd(SubSeq(t, 1, Len(t) - 1)) ELSE t

Trim(t) == TrimEnd(TrimStart(t))

(***************************************************************************)
(* Inputs                                                                  *)
(***************************************************************************)
Urls == {Undefined, "", "https://example.com/article", "not-a-url"}
LanguageInputs == {Undefined, "english", "german", "klingon", "constructor"}
LengthInputs == {Undefined, "short", "medium", "detailed", "huge", "constructor"}

Bodies == [url : Urls, language : LanguageInputs, summaryLength : LengthInputs]

\* What axios.get(url) settles with: a rejection (network error, non-2xx
\* status), or a document.  A document is described by what
\* Readability.parse() makes of it: null, or an article with a textContent.
FetchResults ==
  [ok : {FALSE}, message : {"Network Error", "Request failed with status code 404"},
   article : {<<>>}]
  \cup [ok : {TRUE}, message : {""}, article : Option(Texts)]

\* What openai.chat.completions.create settles with: a rejection carrying the
\* backend's message, or a completion; choices holds choices[i].message.content.
ChatResults ==
  [ok : {FALSE},
   message : {"401 Incorrect API key provided", "429 Rate limit reached", "Request timed out."},
   choices : {<<>>}]
  \cup [ok : {TRUE}, message : {""}, choices : Option(Texts)]

\* error.message of the TypeError raised by completion.choices[0].message
\* when choices is empty.
NoChoicesMessage == "Cannot read properties of undefined (reading 'message')"

(***************************************************************************)
(* Responses                                                               *)
(***************************************************************************)
\* res.status(400).json({ error })
Json400(error) ==
  [status |-> 400, error |-> <<error>>, details |-> <<>>, summary |-> <<>>]

\* res.status(500).json({ error, details })
Json500(error, details) ==
  [status |-> 500, error |-> <<error>>, details |-> <<details>>, summary |-> <<>>]

\* res.json({ summary })
Json200(summary) ==
  [status |-> 200, error |-> <<>>, details |-> <<>>, summary |-> <<summary>>]

(***************************************************************************)
(* State                                                                   *)
(***************************************************************************)
Reqs == {1}

VARIABLES
  server,   \* which of the two server programs is running
  req,      \* req[r]: the state of the handler invocation serving request r
  proc,     \* the server process: its environment and how far it has started
  client    \* the state of the web form (the App component)

vars == <<server, req, proc, client>>

\* The server process once app.listen has run, with an API key configured.
\*   apiKey    process.env.OPENAI_API_KEY
\*   state     "loading" (the module is being evaluated), "listening", or
\*             "crashed" (the module threw while loading)
\*   root      the response to GET /, once one was served
\*   rejected  the response of the error-handling middleware, once it ran
Listening ==
  [apiKey |-> "sk-test", state |-> "listening", root |-> <<>>, rejected |-> <<>>]

\* The App component of a first visit, mounted, and its browser.
\*   url, language, summaryLength   the form's state (useState defaults)
\*   summary, error, loading        the result area
\*   recentSummaries                the recent-summaries list
\*   storage     localStorage.getItem('recentSummaries'): <<>> for null, or
\*               <<list>> for the JSON of a list
\*   effects     the passive effects React has yet to run for the last
\*               commit: "mount" (all of them, after the first render),
\*               "save" (the save effect, after recentSummaries changed), or
\*               "none"
\*   queued      the list the load effect passed to setRecentSummaries and
\*               React has not rendered yet
\*   awaiting    what handleSubmit is suspended on: "none" or "response"
\*   submitted   url, language and summaryLength as the running handleSubmit
\*               closed over them (the defaults when none is running)
\*   posted      the request body fetch has sent and the server has not yet
\*               received
\*   observed    the invocation on the server whose response will resolve
\*               the pending fetch; 0 when there is none
\*   clock       the latest value new Date() gave
NoClient ==
  [url |-> "", language |-> "english", summaryLength |-> "medium",
   summary |-> <<>>, error |-> "", loading |-> FALSE,
   recentSummaries |-> <<>>, storage |-> << <<>> >>,
   effects |-> "none", queued |-> <<>>,
   awaiting |-> "none",
   submitted |-> [url |-> "", language |-> "english", summaryLength |-> "medium"],
   posted |-> <<>>, observed |-> 0,
   clock |-> 0]

\* A request not yet received.
\*   pc             where the async handler is suspended
\*   body           req.body
\*   language, summaryLength, articleContent, englishSummary
\*                  the handler's local constants, once bound
\*   fetches        the urls passed to axios.get, in order
\*   chats          the requests passed to openai.chat.completions.create
\*   fetchResult, summarizeResult, translateResult
\*                  what each awaited call settled with, once settled
\*   sent           the responses written with res.json, in order
NoRequest ==
  [pc |-> "idle",
   body |-> [url |-> Undefined, language |-> Undefined, summaryLength |-> Undefined],
   language |-> Undefined, summaryLength |-> Undefined,
   articleContent |-> <<>>, englishSummary |-> <<>>,
   fetches |-> <<>>, chats |-> <<>>,
   fetchResult |-> <<>>, summarizeResult |-> <<>>, translateResult |-> <<>>,
   sent |-> <<>>]

(***************************************************************************)
(* The handler of POST /summarize, cut at its awaits                       *)
(***************************************************************************)
\* res.json(...) followed by the handler's return.
Respond(q, response) ==
  [q EXCEPT !.sent = Append(@, response), !.pc = "done"]

\* HandlerCatch with res.status(500) left out: res.json alone answers 200.
HandlerCatchNoStatus(q, message) ==
  Respond(q, [status |-> 200, error |-> <<"Failed to generate summary">>,
              details |-> <<message>>, summary |-> <<>>])

\* The catch block of the route handler.
HandlerCatch(q, message) ==
  Respond(q, Json500("Failed to generate summary", message))

\* Default with the destructuring default left out.
DefaultIgnored(v, dflt) == v

\* A destructuring default: `field = dflt` applies when the field is undefined.
Default(v, dflt) == IF v = Undefined THEN dflt ELSE v

\* Validate with the language check moved ahead of the url check.
ValidateLanguageFirst(srv, url, language, summaryLength) ==
  IF ~HasTruthyProperty(LanguageTable(srv), language)
    THEN <<"Invalid language selected">>
  ELSE IF Falsy(url) THEN <<"URL is required">>
  ELSE IF ~HasTruthyProperty(LengthTable(srv), summaryLength)
    THEN <<"Invalid summary length selected">>
  ELSE <<>>

\* The three validation checks, in the handler's order: the error of the first
\* that fails, or nothing.
Validate(srv, url, language, summaryLength) ==
  IF Falsy(url) THEN <<"URL is required">>
  ELSE IF ~HasTruthyProperty(LanguageTable(srv), language)
    THEN <<"Invalid language selected">>
  ELSE IF ~HasTruthyProperty(LengthTable(srv), summaryLength)
    THEN <<"Invalid summary length selected">>
  ELSE <<>>

\* HandlerStart with the `return` before res.status(400) left out: the
\* handler answers 400 and goes on to fetch.
HandlerStartNoReturn(srv, q, body) ==
  LET language == Default(body.language, "english")
      summaryLength == Default(body.summaryLength, "medium")
      bound == [q EXCEPT !.body = body, !.language = language,
                         !.summaryLength = summaryLength]
      invalid == Validate(srv, body.url, language, summaryLength)
      answered == IF invalid # <<>>
                    THEN [bound EXCEPT !.sent = Append(@, Json400(invalid[1]))]
                  ELSE bound
  IN [answered EXCEPT !.pc = "fetching", !.fetches = Append(@, body.url)]

\* From the request's arrival to the first await: destructure, validate, and
\* either answer 400 or start the article fetch.
HandlerStart(srv, q, body) ==
  LET language == Default(body.language, "english")
      summaryLength == Default(body.summaryLength, "medium")
      bound == [q EXCEPT !.body = body, !.language = language,
                         !.summaryLength = summaryLength]
      invalid == Validate(srv, body.url, language, summaryLength)
  IN IF invalid # <<>> THEN Respond(bound, Json400(invalid[1]))
     ELSE [bound EXCEPT !.pc = "fetching", !.fetches = Append(@, body.url)]

\* extractArticleContent(url) once axios.get has settled: the text it returns,
\* or the message of the Error it throws.
ExtractionErrorMessage(srv) ==
  IF srv = "part_000" THEN "Failed to extract article content"
  ELSE "Failed to extract article content. Please check the URL and try again."

extractArticleContent(srv, result) ==
  IF ~result.ok
    THEN [threw |-> TRUE, message |-> ExtractionErrorMessage(srv), text |-> <<>>]
  ELSE IF srv = "part_000"
    \* return article ? article.textContent : ''
    THEN [threw |-> FALSE, message |-> "",
          text |-> IF result.article = <<>> THEN <<>> ELSE result.article[1]]
  \* return article.textContent.trim(): a TypeError on a null article, caught
  \* and rethrown by the function's own catch
  ELSE IF result.article = <<>>
    THEN [threw |-> TRUE, message |-> ExtractionErrorMessage(srv), text |-> <<>>]
  ELSE [threw |-> FALSE, message |-> "", text |-> Trim(result.article[1])]

\* table[key].instruction inside a template literal, and table[key].maxTokens
\* as a JSON field (an undefined field is left out of the request).
\* MaxTokens sending translateText's fixed ceiling whatever the tier.
MaxTokensFixed(table, key) == <<1000>>

Instruction(table, key) ==
  IF key \in DOMAIN table THEN table[key].instruction ELSE "undefined"
MaxTokens(table, key) ==
  IF key \in DOMAIN table THEN <<table[key].maxTokens>> ELSE <<>>

\* `${LANGUAGE_PROMPTS[language]}` of index.js.
LanguagePrompt(language) ==
  IF language \in DOMAIN LANGUAGE_PROMPTS THEN LANGUAGE_PROMPTS[language]
  ELSE InheritedToString(language)

EnglishFirstNote ==
  "Generate the summary in English first, it will be translated afterward."

\* The system message of part_000's summarization request.
SummarizeSystemContent(language) ==
  IF language = "english" THEN <<LANGUAGES.english.systemPrompt>>
  ELSE <<LANGUAGES.english.systemPrompt, "\n\n", EnglishFirstNote>>

\* The argument of the summarization call.
SummarizeRequest(srv, language, summaryLength, articleContent) ==
  IF srv = "part_000"
    THEN [site |-> "summarize", model |-> "gpt-4-turbo-preview",
          messages |-> <<
            [role |-> "system", content |-> SummarizeSystemContent(language)],
            [role |-> "user",
             content |-> <<Instruction(lengthConfigs, summaryLength), "\n\n",
                           "Please summarize this news article:", "\n\n">>
                         \o articleContent] >>,
          max_tokens |-> MaxTokens(lengthConfigs, summaryLength)]
    ELSE [site |-> "summarize", model |-> "gpt-3.5-turbo",
          messages |-> <<
            [role |-> "system",
             content |-> <<"You are a professional news summarizer. Provide clear, accurate, and well-structured summaries.">>],
            [role |-> "user",
             content |-> <<LanguagePrompt(language), "\n\n",
                           Instruction(SUMMARY_LENGTHS, summaryLength), "\n\n",
                           "Article content:", "\n">>
                         \o articleContent] >>,
          max_tokens |-> MaxTokens(SUMMARY_LENGTHS, summaryLength)]

\* !articleContent after extraction: only part_000 has the check.
RejectsArticle(srv, articleContent) ==
  srv = "part_000" /\ articleContent = <<>>

\* AfterFetch fetching the article a second time when extraction threw.
AfterFetchRetries(srv, q, result) ==
  LET got == [q EXCEPT !.fetchResult = <<result>>]
      extracted == extractArticleContent(srv, result)
  IN IF extracted.threw /\ Len(q.fetches) < 2
       THEN [got EXCEPT !.pc = "fetching", !.fetches = Append(@, q.body.url)]
     ELSE IF extracted.threw THEN HandlerCatch(got, extracted.message)
     ELSE IF RejectsArticle(srv, extracted.text)
       THEN Respond(got, Json400("Could not extract article content"))
     ELSE [got EXCEPT !.articleContent = extracted.text,
                      !.pc = "summarizing",
                      !.chats = Append(@, SummarizeRequest(srv, q.language,
                                       q.summaryLength, extracted.text))]

\* From the settling of axios.get to the next await.
AfterFetch(srv, q, result) ==
  LET got == [q EXCEPT !.fetchResult = <<result>>]
      extracted == extractArticleContent(srv, result)
  IN IF extracted.threw THEN HandlerCatch(got, extracted.message)
     ELSE IF RejectsArticle(srv, extracted.text)
       THEN Respond(got, Json400("Could not extract article content"))
     ELSE [got EXCEPT !.articleContent = extracted.text,
                      !.pc = "summarizing",
                      !.chats = Append(@, SummarizeRequest(srv, q.language,
                                       q.summaryLength, extracted.text))]

\* LANGUAGES[language].translationPrompt.
TranslationPrompt(language) ==
  IF language \in DOMAIN LANGUAGES THEN LANGUAGES[language].translationPrompt
  ELSE Undefined

\* NeedsTranslation without the short-circuit for a falsy prompt.
NeedsTranslationAlways(language) == TRUE

\* The guard of translateText: a backend call is made unless the prompt is
\* falsy.
NeedsTranslation(language) == ~Falsy(TranslationPrompt(language))

\* The argument of translateText's backend call.
TranslateRequest(text, language) ==
  [site |-> "translate", model |-> "gpt-4-turbo-preview",
   messages |-> <<
     [role |-> "system",
      content |-> <<"You are a professional translator. Provide accurate translations while maintaining the original format and style.">>],
     [role |-> "user",
      content |-> <<TranslationPrompt(language), "\n\n">> \o text] >>,
   max_tokens |-> <<1000>>]

\* The synchronous start of translateText(text, language): return the text
\* at once, or suspend on the backend call.
translateText(q, text, language) ==
  IF ~NeedsTranslation(language) THEN Respond(q, Json200(text))
  ELSE [q EXCEPT !.pc = "translating",
                 !.chats = Append(@, TranslateRequest(text, language))]

\* AfterSummarize passing the article, not the summary, to translateText.
AfterSummarizeTranslatesArticle(srv, q, result) ==
  LET got == [q EXCEPT !.summarizeResult = <<result>>]
  IN IF ~result.ok THEN HandlerCatch(got, result.message)
     ELSE IF result.choices = <<>> THEN HandlerCatch(got, NoChoicesMessage)
     ELSE IF srv = "part_000"
       THEN translateText([got EXCEPT !.englishSummary = result.choices[1]],
                          q.articleContent, q.language)
     ELSE Respond(got, Json200(Trim(result.choices[1])))

\* From the settling of the summarization call to the next await (part_000)
\* or to the response (index.js).
AfterSummarize(srv, q, result) ==
  LET got == [q EXCEPT !.summarizeResult = <<result>>]
  IN IF ~result.ok THEN HandlerCatch(got, result.message)
     ELSE IF result.choices = <<>> THEN HandlerCatch(got, NoChoicesMessage)
     ELSE IF srv = "part_000"
       THEN translateText([got EXCEPT !.englishSummary = result.choices[1]],
                          result.choices[1], q.language)
     ELSE Respond(got, Json200(Trim(result.choices[1])))

\* What translateText's catch block throws.
TranslationErrorMessage(result) == "Failed to translate the summary"

\* AfterTranslate degrading to the English summary when translation fails.
AfterTranslateFallsBack(q, result) ==
  LET got == [q EXCEPT !.translateResult = <<result>>]
  IN IF ~result.ok \/ result.choices = <<>>
       THEN Respond(got, Json200(q.englishSummary))
     ELSE Respond(got, Json200(result.choices[1]))

\* From the settling of the translation call to the response.
AfterTranslate(q, result) ==
  LET got == [q EXCEPT !.translateResult = <<result>>]
  IN IF ~result.ok \/ result.choices = <<>>
       THEN HandlerCatch(got, TranslationErrorMessage(result))
     ELSE Respond(got, Json200(result.choices[1]))

(***************************************************************************)
(* Two requests in flight at once                                          *)
(***************************************************************************)
ConcurrentReqs == {1, 2}

\* The workload of the two-request runs: a subset of the inputs above.
ConcurrentBodies ==
  [url : {Undefined, "https://example.com/article"},
   language : {"english", "german"},
   summaryLength : {"short", "detailed"}]

ConcurrentFetchResults ==
  {result \in FetchResults :
     \/ ~result.ok /\ result.message = "Network Error"
     \/ result.ok /\ result.article \in {<<>>, <<<<"a">>>>}}

ConcurrentChatResults ==
  {result \in ChatResults :
     \/ ~result.ok /\ result.message = "429 Rate limit reached"
     \/ result.ok /\ result.choices \in {<<<<"a">>>>, <<<<"a", "a">>>>}}

InitConcurrent ==
  /\ server \in Servers
  /\ req = [r \in ConcurrentReqs |-> NoRequest]
  /\ proc = Listening
  /\ client = NoClient

\* SummarizeSettles for a handler that keeps `language` in a variable of the
\* module instead of a const of the invocation: the continuation sees the
\* value the latest other invocation left there.
SummarizeSettlesShared(r, result) ==
  LET others == {o \in DOMAIN req : o # r /\ req[o].pc # "idle"}
      shared == IF others = {} THEN req[r].language
                ELSE req[CHOOSE o \in others : TRUE].language
  IN /\ req[r].pc = "summarizing"
     /\ req' = [req EXCEPT ![r] =
                  AfterSummarize(server, [@ EXCEPT !.language = shared], result)]
     /\ UNCHANGED <<server, proc, client>>

(***************************************************************************)
(* Actions                                                                 *)
(***************************************************************************)
Init ==
  /\ server \in Servers
  /\ req = [r \in Reqs |-> NoRequest]
  /\ proc = Listening
  /\ client = NoClient

\* A POST /summarize request arrives.
Post(r, body) ==
  /\ proc.state = "listening"
  /\ req[r].pc = "idle"
  /\ req' = [req EXCEPT ![r] = HandlerStart(server, @, body)]
  /\ UNCHANGED <<server, proc, client>>

\* axios.get settles.
FetchSettles(r, result) ==
  /\ req[r].pc = "fetching"
  /\ req' = [req EXCEPT ![r] = AfterFetch(server, @, result)]
  /\ UNCHANGED <<server, proc, client>>

\* The summarization call settles.
SummarizeSettles(r, result) ==
  /\ req[r].pc = "summarizing"
  /\ req' = [req EXCEPT ![r] = AfterSummarize(server, @, result)]
  /\ UNCHANGED <<server, proc, client>>

\* The translation call settles.
TranslateSettles(r, result) ==
  /\ req[r].pc = "translating"
  /\ req' = [req EXCEPT ![r] = AfterTranslate(@, result)]
  /\ UNCHANGED <<server, proc, client>>

\* The event loop runs the continuations of the two invocations in any order.
NextConcurrent ==
  \E r \in ConcurrentReqs :
    \/ \E body \in ConcurrentBodies : Post(r, body)
    \/ \E result \in ConcurrentFetchResults : FetchSettles(r, result)
    \/ \E result \in ConcurrentChatResults : SummarizeSettles(r, result)
    \/ \E result \in ConcurrentChatResults : TranslateSettles(r, result)

SpecConcurrent == InitConcurrent /\ [][NextConcurrent]_vars

Next ==
  \E r \in Reqs :
    \/ \E body \in Bodies : Post(r, body)
    \/ \E result \in FetchResults : FetchSettles(r, result)
    \/ \E result \in ChatResults : SummarizeSettles(r, result)
    \/ \E result \in ChatResults : TranslateSettles(r, result)

Spec == Init /\ [][Next]_vars

\* The program of src/unnamed/part_000 alone.
InitPart000 ==
  /\ server = "part_000"
  /\ req = [r \in Reqs |-> NoRequest]
  /\ proc = Listening
  /\ client = NoClient

SpecPart000 == InitPart000 /\ [][Next]_vars

(***************************************************************************)
(* The process: start-up, GET /, and the error-handling middleware         *)
(***************************************************************************)
ApiKeys == {Undefined, "sk-test"}

\* new OpenAI({ apiKey }) at module level.  With apiKey undefined the openai
\* SDK's constructor throws ("The OPENAI_API_KEY environment variable is
\* missing or empty ..."); the SDK is not part of the repository, so a build
\* whose SDK constructs the client anyway, and rejects its calls, is allowed
\* for as well.
OpenAIConstructorOutcomes(apiKey) ==
  IF apiKey = Undefined THEN {"throws", "constructs"} ELSE {"constructs"}

\* What the backend answers a process that has this key.
ChatResultsFor(apiKey) ==
  IF apiKey = Undefined
    THEN {result \in ChatResults :
            ~result.ok /\ result.message = "401 Incorrect API key provided"}
  ELSE ChatResults

\* The body of GET /.
RootMessage(srv) ==
  IF srv = "part_000" THEN "Backend is running!"
  ELSE "AI News Summarizer API is running"

\* Request bodies that are not JSON.
MalformedBodies == {"{bad", "{\"url\": }"}

\* err.message of the SyntaxError JSON.parse raises on such a body, which
\* express.json() passes on.
JsonParseErrorMessage(text) ==
  IF text = "{bad" THEN "Expected property name or '}' in JSON at position 1"
  ELSE "Unexpected token '}', \"" \o text \o "\" is not valid JSON"

\* The error-handling middleware: res.status(500).json({ error, details }).
ErrorMiddleware(message) == Json500("Something went wrong!", message)

InitHttp ==
  /\ server \in Servers
  /\ req = [r \in Reqs |-> NoRequest]
  /\ proc \in [apiKey : ApiKeys, state : {"loading"}, root : {<<>>},
               rejected : {<<>>}]
  /\ client = NoClient

\* The module is evaluated top to bottom: the OpenAI client is constructed
\* before the routes are registered and app.listen is called.
Start(outcome) ==
  /\ proc.state = "loading"
  /\ proc' = [proc EXCEPT !.state = IF outcome = "throws" THEN "crashed"
                                    ELSE "listening"]
  /\ UNCHANGED <<server, req, client>>

\* GET /
GetRoot ==
  /\ proc.state = "listening"
  /\ proc' = [proc EXCEPT !.root = <<[status |-> 200, message |-> RootMessage(server)]>>]
  /\ UNCHANGED <<server, req, client>>

\* A POST whose body is not JSON: express.json() passes the error to the
\* error-handling middleware; the route handler does not run.
PostMalformed(text) ==
  /\ proc.state = "listening"
  /\ proc' = [proc EXCEPT !.rejected = <<ErrorMiddleware(JsonParseErrorMessage(text))>>]
  /\ UNCHANGED <<server, req, client>>

NextHttp ==
  \/ \E outcome \in OpenAIConstructorOutcomes(proc.apiKey) : Start(outcome)
  \/ GetRoot
  \/ \E text \in MalformedBodies : PostMalformed(text)
  \/ \E r \in Reqs :
       \/ \E body \in Bodies : Post(r, body)
       \/ \E result \in FetchResults : FetchSettles(r, result)
       \/ \E result \in ChatResultsFor(proc.apiKey) : SummarizeSettles(r, result)
       \/ \E result \in ChatResultsFor(proc.apiKey) : TranslateSettles(r, result)

SpecHttp == InitHttp /\ [][NextHttp]_vars

(***************************************************************************)
(* The web form (App) and its handleSubmit                                 *)
(***************************************************************************)
MaxTimestamp == 2

\* .slice(0, 5)
RecentCap == 5

\* The invocations the server can have in progress for the form: the one
\* the form waits for and one the form has given up on.
ClientReqs == {1, 2}

\* What the form's controls get set to: the url input is type="url" and
\* required, the language select offers the keys of the client's LANGUAGES
\* (two of them here), the length select short, medium and detailed.
ClientUrls == {"https://example.com/article"}
ClientLanguages == {"english", "german"}
ClientLengths == {"short", "medium", "detailed"}

\* What the server's calls settle with in the runs of the form.
ClientFetchResults ==
  {result \in FetchResults :
     \/ ~result.ok /\ result.message = "Network Error"
     \/ result.ok /\ result.article = <<<<"a">>>>}

ClientChatResults ==
  {result \in ChatResults :
     \/ ~result.ok /\ result.message = "429 Rate limit reached"
     \/ result.ok /\ result.choices = <<<<"a">>>>}

\* err.message of a rejected fetch: the browser's text, possibly empty.
FetchRejectionMessages ==
  {"Failed to fetch", ""}

\* The lists an earlier visit can have left in localStorage: the save effect
\* only ever writes a list the updater below produced.
SavedLists ==
  {[i \in 1..n |-> [url |-> "https://example.com/article", summary |-> <<"a">>,
                    timestamp |-> 1 - i, language |-> "english"]] :
     n \in {1, RecentCap}}

\* JSON.stringify({ url, language, length: summaryLength })
ClientBody(c) ==
  [url |-> c.url, language |-> c.language, length |-> c.summaryLength]

\* obj[key] of a parsed JSON object.
Property(obj, key) == IF key \in DOMAIN obj THEN obj[key] ELSE Undefined

\* The three properties the server's handler destructures from req.body.
RequestBody(json) ==
  [url |-> Property(json, "url"), language |-> Property(json, "language"),
   summaryLength |-> Property(json, "summaryLength")]

\* data.error || data.details || 'Failed to generate summary'
ErrorOf(data) ==
  IF data.error # <<>> /\ data.error[1] # "" THEN data.error[1]
  ELSE IF data.details # <<>> /\ data.details[1] # "" THEN data.details[1]
  ELSE "Failed to generate summary"

\* err.message || 'Failed to generate summary. Please try again.'
CatchMessage(message) ==
  IF message = "" THEN "Failed to generate summary. Please try again."
  ELSE message

\* The updater without .slice(0, 5).
PrependRecentUncapped(prev, entry) == <<entry>> \o prev

\* prev => [entry, ...prev].slice(0, 5)
PrependRecent(prev, entry) ==
  LET all == <<entry>> \o prev
  IN SubSeq(all, 1, IF Len(all) < RecentCap THEN Len(all) ELSE RecentCap)

\* The component after its first render: the useState defaults are shown and
\* the effects of the mount have yet to run.
FirstRender(storage, clock) ==
  [NoClient EXCEPT !.storage = storage, !.effects = "mount", !.clock = clock]

\* The load effect: if (saved) setRecentSummaries(JSON.parse(saved)).
LoadEffect(c) ==
  IF c.storage # <<>> THEN [c EXCEPT !.queued = <<c.storage[1]>>] ELSE c

\* The save effect: localStorage.setItem(..., JSON.stringify(recentSummaries)),
\* with the list of the render the effect belongs to.
SaveEffect(c) == [c EXCEPT !.storage = <<c.recentSummaries>>]

\* React runs the passive effects of the last commit, in the order of their
\* declaration; after the first render all of them.
RunEffects(c) ==
  LET ran == IF c.effects = "mount" THEN SaveEffect(LoadEffect(c))
             ELSE IF c.effects = "save" THEN SaveEffect(c)
             ELSE c
  IN [ran EXCEPT !.effects = "none"]

\* React renders and commits the queued update; the list is a new array, so
\* the save effect is due.
Commit(c) ==
  IF c.queued = <<>> THEN c
  ELSE [c EXCEPT !.recentSummaries = c.queued[1], !.queued = <<>>,
                 !.effects = "save"]

\* The component as a handler's update gets rendered: React first runs the
\* passive effects still pending, then renders every queued update.
Rendered(c) == Commit(RunEffects(c))

InitClient ==
  /\ server \in Servers
  /\ req = [r \in ClientReqs |-> NoRequest]
  /\ proc = Listening
  /\ client \in {FirstRender(storage, 0) :
                   storage \in {<<>>} \cup {<<saved>> : saved \in SavedLists}}

\* React runs the pending passive effects.
RunPassiveEffects ==
  /\ client.effects # "none"
  /\ client' = RunEffects(client)
  /\ UNCHANGED <<server, req, proc>>

\* React renders the update the load effect queued.
Rerender ==
  /\ client.effects = "none"
  /\ client.queued # <<>>
  /\ client' = Commit(client)
  /\ UNCHANGED <<server, req, proc>>

\* onChange of the url input and of the two selects.
SetUrl(u) ==
  /\ client.url # u
  /\ client' = [Rendered(client) EXCEPT !.url = u]
  /\ UNCHANGED <<server, req, proc>>

SetLanguage(l) ==
  /\ client.language # l
  /\ client' = [Rendered(client) EXCEPT !.language = l]
  /\ UNCHANGED <<server, req, proc>>

SetSummaryLength(s) ==
  /\ client.summaryLength # s
  /\ client' = [Rendered(client) EXCEPT !.summaryLength = s]
  /\ UNCHANGED <<server, req, proc>>

\* handleSubmit up to its await of fetch.  The button is disabled while
\* loading and the browser refuses to submit without a url.
Submit ==
  /\ ~client.loading
  /\ client.url \in ClientUrls
  /\ client.clock < MaxTimestamp
  /\ client' = [Rendered(client) EXCEPT
       !.loading = TRUE, !.error = "", !.summary = <<>>,
       !.awaiting = "response",
       !.submitted = [url |-> client.url, language |-> client.language,
                      summaryLength |-> client.summaryLength],
       !.posted = <<ClientBody(client)>>]
  /\ UNCHANGED <<server, req, proc>>

\* The request reaches the server: a new invocation of the handler (the
\* first free r) runs up to its first await.
RequestArrives(r) ==
  /\ client.posted # <<>>
  /\ proc.state = "listening"
  /\ req[r].pc = "idle"
  /\ \A o \in ClientReqs : o < r => req[o].pc # "idle"
  /\ req' = [req EXCEPT ![r] = HandlerStart(server, @, RequestBody(client.posted[1]))]
  /\ client' = [client EXCEPT !.posted = <<>>, !.observed = r]
  /\ UNCHANGED <<server, proc>>

\* fetch and response.json() resolve: the rest of handleSubmit, and the
\* render of its updates.  The save effect of that render runs later.
ClientReceives ==
  /\ client.awaiting = "response"
  /\ client.observed # 0
  /\ req[client.observed].pc = "done"
  /\ LET data == req[client.observed].sent[1]
         ok == data.status \in 200..299
         now == client.clock + 1
         entry == [url |-> client.submitted.url, summary |-> data.summary[1],
                   timestamp |-> now, language |-> client.submitted.language]
         shown == Rendered(client)
     IN client' =
          IF ok
            THEN [shown EXCEPT
                    !.submitted = NoClient.submitted,
                    !.summary = data.summary[1],
                    !.recentSummaries = PrependRecent(@, entry),
                    !.effects = "save",
                    !.clock = now,
                    !.loading = FALSE, !.awaiting = "none", !.observed = 0]
          ELSE [shown EXCEPT
                  !.submitted = NoClient.submitted,
                  !.error = CatchMessage(ErrorOf(data)),
                  !.loading = FALSE, !.awaiting = "none", !.observed = 0]
  /\ req' = [req EXCEPT ![client.observed] = NoRequest]
  /\ UNCHANGED <<server, proc>>

\* fetch rejects: the catch block.  A request still on its way is lost; an
\* invocation already running on the server goes on, unobserved.
ClientFetchRejects(message) ==
  /\ client.awaiting = "response"
  /\ client' = [Rendered(client) EXCEPT
                  !.submitted = NoClient.submitted,
                  !.error = CatchMessage(message),
                  !.loading = FALSE, !.awaiting = "none",
                  !.posted = <<>>, !.observed = 0]
  /\ UNCHANGED <<server, req, proc>>

\* The page is left and loaded again: the component renders for the first
\* time, with localStorage as the old page left it.  Effects the old page had
\* yet to run, and what it was waiting for, are given up.
Reload ==
  /\ client' = FirstRender(client.storage, client.clock)
  /\ UNCHANGED <<server, req, proc>>

\* An invocation the form no longer waits for has sent its response: it is
\* over.
Unobserved(r) ==
  /\ req[r].pc = "done"
  /\ client.observed # r
  /\ req' = [req EXCEPT ![r] = NoRequest]
  /\ UNCHANGED <<server, proc, client>>

NextClient ==
  \/ \E u \in ClientUrls : SetUrl(u)
  \/ \E l \in ClientLanguages : SetLanguage(l)
  \/ \E s \in ClientLengths : SetSummaryLength(s)
  \/ Submit
  \/ ClientReceives
  \/ \E message \in FetchRejectionMessages : ClientFetchRejects(message)
  \/ Reload
  \/ RunPassiveEffects
  \/ Rerender
  \/ \E r \in ClientReqs :
       \/ RequestArrives(r)
       \/ Unobserved(r)
       \/ \E result \in ClientFetchResults : FetchSettles(r, result)
       \/ \E result \in ClientChatResults : SummarizeSettles(r, result)
       \/ \E result \in ClientChatResults : TranslateSettles(r, result)

SpecClient == InitClient /\ [][NextClient]_vars

(***************************************************************************)
(* Vocabulary of the properties                                            *)
(***************************************************************************)
\* The keys the language registry defines, and its base language.
SupportedLanguages == DOMAIN LANGUAGES
BaseLanguage == "english"
NonBaseLanguages == SupportedLanguages \ {BaseLanguage}
LengthTiers == DOMAIN lengthConfigs

Received(r) == req[r].pc # "idle"

\* No article fetch, no summarization call, no translation call.
NoNetworkCall(r) == req[r].fetches = <<>> /\ req[r].chats = <<>>

ChatsAt(r, site) == {i \in DOMAIN req[r].chats : req[r].chats[i].site = site}

Sent200(r) == \E i \in DOMAIN req[r].sent : req[r].sent[i].status = 200

\* The awaited call has settled, and failed / succeeded.
FetchFailed(r) ==
  req[r].fetchResult # <<>> /\ ~req[r].fetchResult[1].ok
FetchSucceeded(r) ==
  req[r].fetchResult # <<>> /\ req[r].fetchResult[1].ok
ChatFailed(result) ==
  result # <<>> /\ (~result[1].ok \/ result[1].choices = <<>>)
ChatSucceeded(result) ==
  result # <<>> /\ result[1].ok /\ result[1].choices # <<>>

\* token occurs in the text.
Contains(text, token) == \E i \in DOMAIN text : text[i] = token

(***************************************************************************)
(* C1. A request whose url is missing or empty, whatever its language and  *)
(* summaryLength, is answered with exactly 400 {error: "URL is required"}, *)
(* and no network call is made for it.                                     *)
(***************************************************************************)
C1_MissingUrlRejected ==
  \A r \in Reqs :
    (Received(r) /\ req[r].body.url \in {Undefined, ""}) =>
      /\ req[r].pc = "done"
      /\ req[r].sent = << [status |-> 400, error |-> <<"URL is required">>,
                           details |-> <<>>, summary |-> <<>>] >>
      /\ NoNetworkCall(r)

\* An empty url together with an unknown language and an unknown length has
\* been answered.
C1_Witness ==
  \E r \in Reqs :
    /\ req[r].pc = "done"
    /\ req[r].body = [url |-> "", language |-> "klingon", summaryLength |-> "huge"]
    /\ req[r].sent # <<>>

(***************************************************************************)
(* C2. A request with a non-empty url and a language that is not one of    *)
(* the ten keys the language registry defines is answered with exactly     *)
(* 400 {error: "Invalid language selected"}, and no network call is made.  *)
(* The server does not do so for a name the table inherits ("constructor").*)
(***************************************************************************)
C2_UnknownLanguageRejected ==
  \A r \in Reqs :
    (/\ Received(r)
     /\ ~Falsy(req[r].body.url)
     /\ req[r].language \notin SupportedLanguages) =>
      /\ req[r].pc = "done"
      /\ req[r].sent = << [status |-> 400, error |-> <<"Invalid language selected">>,
                           details |-> <<>>, summary |-> <<>>] >>
      /\ NoNetworkCall(r)

(***************************************************************************)
(* C3. A request with a non-empty url, a supported language and a          *)
(* summaryLength that is not one of short, medium, detailed is answered    *)
(* with exactly 400 {error: "Invalid summary length selected"} before any  *)
(* network call.  The server does not do so for an inherited name.         *)
(***************************************************************************)
C3_UnknownLengthRejected ==
  \A r \in Reqs :
    (/\ Received(r)
     /\ ~Falsy(req[r].body.url)
     /\ req[r].language \in SupportedLanguages
     /\ req[r].summaryLength \notin LengthTiers) =>
      /\ req[r].pc = "done"
      /\ req[r].sent = << [status |-> 400, error |-> <<"Invalid summary length selected">>,
                           details |-> <<>>, summary |-> <<>>] >>
      /\ NoNetworkCall(r)

(***************************************************************************)
(* C4. A validated request whose content extraction fails (the fetch is    *)
(* rejected, or the document parses to no article) ends with one 400-class *)
(* response carrying an error message, and no summarization or translation *)
(* call is made.  The server answers a rejected fetch with 500.            *)
(***************************************************************************)
C4_ExtractionFailureIs400 ==
  \A r \in Reqs :
    (FetchFailed(r) \/ (FetchSucceeded(r) /\ req[r].fetchResult[1].article = <<>>)) =>
      /\ req[r].pc = "done"
      /\ Len(req[r].sent) = 1
      /\ req[r].sent[1].status \in 400..499
      /\ req[r].sent[1].error # <<>>
      /\ req[r].chats = <<>>

(***************************************************************************)
(* C5. When the fetch succeeds but extraction yields no article body or an *)
(* empty text, the summarization backend is never called and no 200        *)
(* response is sent.  index.js has no such check.                          *)
(***************************************************************************)
C5_EmptyExtractionNotSummarized ==
  \A r \in Reqs :
    (/\ FetchSucceeded(r)
     /\ req[r].fetchResult[1].article \in {<<>>, << <<>> >>}) =>
      /\ req[r].chats = <<>>
      /\ ~Sent200(r)

(***************************************************************************)
(* C6. For a request that passed validation and extraction, a failure of   *)
(* the summarization call (a rejection: auth failure, rate limit, timeout; *)
(* or a completion with no choices) ends the request with one response,    *)
(* status 500 and error "Failed to generate summary"; no 200 response is   *)
(* sent and no translation call is made.                                   *)
(***************************************************************************)
C6_SummarizationFailureIs500 ==
  \A r \in Reqs :
    ChatFailed(req[r].summarizeResult) =>
      /\ req[r].pc = "done"
      /\ Len(req[r].sent) = 1
      /\ req[r].sent[1].status = 500
      /\ req[r].sent[1].error = <<"Failed to generate summary">>
      /\ req[r].sent[1].summary = <<>>
      /\ ChatsAt(r, "translate") = {}

\* A german request whose summarization call returned no choices, and one
\* whose call was rejected, have been answered.
C6_Witness ==
  \E r \in Reqs :
    /\ req[r].language = "german"
    /\ req[r].summarizeResult # <<>>
    /\ req[r].summarizeResult[1].ok
    /\ req[r].summarizeResult[1].choices = <<>>
    /\ req[r].sent # <<>>

(***************************************************************************)
(* C7 (part_000). No partial success: when the translation call of a       *)
(* request in a non-base language fails after summarization succeeded,     *)
(* the one response is status 500 without a summary field; and a response  *)
(* with status 200 or with a summary field is sent only after the fetch    *)
(* gave an article, the summarization call gave a completion and, for a    *)
(* non-base language of the registry, so did the translation call.         *)
(***************************************************************************)
C7_NoPartialSuccess ==
  \A r \in Reqs :
    /\ (ChatSucceeded(req[r].summarizeResult) /\ ChatFailed(req[r].translateResult)) =>
         /\ Len(req[r].sent) = 1
         /\ req[r].sent[1].status = 500
         /\ req[r].sent[1].summary = <<>>
    /\ \A i \in DOMAIN req[r].sent :
         (req[r].sent[i].status = 200 \/ req[r].sent[i].summary # <<>>) =>
           /\ req[r].sent[i].status = 200
           /\ FetchSucceeded(r) /\ req[r].fetchResult[1].article # <<>>
           /\ ChatSucceeded(req[r].summarizeResult)
           /\ req[r].language \in NonBaseLanguages =>
                ChatSucceeded(req[r].translateResult)

\* The translation call of a german request was rejected after its
\* summarization call had returned a summary, and the request was answered.
C7_Witness ==
  \E r \in Reqs :
    /\ req[r].language = "german"
    /\ ChatSucceeded(req[r].summarizeResult)
    /\ req[r].summarizeResult[1].choices[1] = <<"a">>
    /\ req[r].translateResult # <<>>
    /\ ~req[r].translateResult[1].ok
    /\ req[r].sent # <<>>

(***************************************************************************)
(* C8 (part_000). english is the only profile whose translationPrompt is   *)
(* null, and for an english request translateText is a no-op: no           *)
(* translation call is ever made, the summary of the 200 response is the   *)
(* very text the summarization call returned, and the request makes        *)
(* exactly one model call in total.                                        *)
(***************************************************************************)
C8_BaseLanguageNoTranslation ==
  /\ \A l \in SupportedLanguages :
       (LANGUAGES[l].translationPrompt = Null) <=> (l = BaseLanguage)
  /\ \A r \in Reqs :
       req[r].language = BaseLanguage =>
         /\ ChatsAt(r, "translate") = {}
         /\ req[r].translateResult = <<>>
         /\ Len(req[r].chats) <= 1
         /\ Sent200(r) =>
              /\ Len(req[r].chats) = 1
              /\ ChatSucceeded(req[r].summarizeResult)
              /\ req[r].sent = <<Json200(req[r].summarizeResult[1].choices[1])>>

\* An english request was answered 200 with a summary that has blanks at
\* both ends.
C8_Witness ==
  \E r \in Reqs :
    /\ req[r].body.language = "english"
    /\ ChatSucceeded(req[r].summarizeResult)
    /\ req[r].summarizeResult[1].choices[1] = <<" ", " ">>
    /\ Sent200(r)

(***************************************************************************)
(* C9 (part_000). For a successful request in a supported non-base         *)
(* language the translation call is made exactly once, after the           *)
(* summarization call has returned, with the summary that call returned as *)
(* its input text, and the summary of the 200 response is the text the     *)
(* translation call returned.                                              *)
(***************************************************************************)
C9_TranslatedOnceFromSummary ==
  \A r \in Reqs :
    /\ ChatsAt(r, "translate") # {} => ChatSucceeded(req[r].summarizeResult)
    /\ (req[r].language \in NonBaseLanguages /\ Sent200(r)) =>
         /\ Len(req[r].chats) = 2
         /\ req[r].chats[1].site = "summarize"
         /\ req[r].chats[2].site = "translate"
         /\ req[r].chats[2].messages[2].content =
              <<LANGUAGES[req[r].language].translationPrompt, "\n\n">>
              \o req[r].summarizeResult[1].choices[1]
         /\ ChatSucceeded(req[r].translateResult)
         /\ req[r].sent = <<Json200(req[r].translateResult[1].choices[1])>>

\* A german request was answered 200; article, summary and translation are
\* three different texts.
C9_Witness ==
  \E r \in Reqs :
    /\ req[r].language = "german"
    /\ Sent200(r)
    /\ req[r].articleContent = <<"a", "a">>
    /\ req[r].summarizeResult[1].choices[1] = <<"a">>
    /\ req[r].translateResult[1].choices[1] = <<" ", "a">>

(***************************************************************************)
(* C10. Summarization happens in the base language: for a supported        *)
(* non-base language, no message of the summarization request carries that *)
(* language's directive (its LANGUAGE_PROMPTS sentence or its own          *)
(* systemPrompt).  index.js puts the language prompt first in the user     *)
(* message and has no translation call.                                    *)
(***************************************************************************)
C10_SummarizedInBaseLanguage ==
  \A r \in Reqs :
    \A i \in ChatsAt(r, "summarize") :
      req[r].language \in NonBaseLanguages =>
        \A m \in DOMAIN req[r].chats[i].messages :
          /\ ~Contains(req[r].chats[i].messages[m].content,
                       LANGUAGE_PROMPTS[req[r].language])
          /\ ~Contains(req[r].chats[i].messages[m].content,
                       LANGUAGES[req[r].language].systemPrompt)

(***************************************************************************)
(* C11. In each length registry maxTokens is non-decreasing in the order   *)
(* short, medium, detailed, and the max_tokens sent with the summarization *)
(* call of a request is exactly the maxTokens of the tier the request's    *)
(* summaryLength names in the running server's registry.                   *)
(***************************************************************************)
C11_MaxTokensOfTier ==
  /\ \A table \in {lengthConfigs, SUMMARY_LENGTHS} :
       /\ table.short.maxTokens <= table.medium.maxTokens
       /\ table.medium.maxTokens <= table.detailed.maxTokens
  /\ \A r \in Reqs :
       \A i \in ChatsAt(r, "summarize") :
         req[r].summaryLength \in LengthTiers =>
           req[r].chats[i].max_tokens =
             << (IF server = "part_000" THEN lengthConfigs
                 ELSE SUMMARY_LENGTHS)[req[r].summaryLength].maxTokens >>

\* A summarization call for the detailed tier was made with max_tokens 500.
C11_Witness ==
  \E r \in Reqs :
    /\ req[r].body.summaryLength = "detailed"
    /\ ChatsAt(r, "summarize") # {}
    /\ req[r].chats[1].max_tokens = <<500>>

(***************************************************************************)
(* C12. A request that carries a url but neither language nor              *)
(* summaryLength is processed as english / medium: it passes validation,   *)
(* its summarization call is the one of an english, medium request (the    *)
(* medium instruction and ceiling) and no translation call is made.        *)
(***************************************************************************)
C12_DefaultsEnglishMedium ==
  \A r \in Reqs :
    (/\ Received(r)
     /\ ~Falsy(req[r].body.url)
     /\ req[r].body.language = Undefined
     /\ req[r].body.summaryLength = Undefined) =>
      /\ req[r].language = "english"
      /\ req[r].summaryLength = "medium"
      /\ req[r].fetches = <<req[r].body.url>>
      /\ \A i \in DOMAIN req[r].sent :
           req[r].sent[i].error \notin {<<"Invalid language selected">>,
                                        <<"Invalid summary length selected">>}
      /\ ChatsAt(r, "translate") = {}
      /\ \A i \in ChatsAt(r, "summarize") :
           /\ req[r].chats[i] =
                SummarizeRequest(server, "english", "medium", req[r].articleContent)
           /\ Contains(req[r].chats[i].messages[2].content,
                       LengthTable(server).medium.instruction)
           /\ req[r].chats[i].max_tokens = <<LengthTable(server).medium.maxTokens>>

\* A request with only a url was answered 200.
C12_Witness ==
  \E r \in Reqs :
    /\ req[r].body = [url |-> "https://example.com/article",
                      language |-> Undefined, summaryLength |-> Undefined]
    /\ Sent200(r)

(***************************************************************************)
(* C14. For every backend failure in the summarization call or in the      *)
(* translation call, details of the 500 response is the message of the     *)
(* underlying backend error.  translateText catches the backend's error    *)
(* and throws a new one with a fixed message, which is what details shows. *)
(***************************************************************************)
C14_DetailsIsBackendMessage ==
  \A r \in Reqs :
    /\ (req[r].summarizeResult # <<>> /\ ~req[r].summarizeResult[1].ok) =>
         /\ Len(req[r].sent) = 1
         /\ req[r].sent[1].status = 500
         /\ req[r].sent[1].details = <<req[r].summarizeResult[1].message>>
    /\ (req[r].translateResult # <<>> /\ ~req[r].translateResult[1].ok) =>
         /\ Len(req[r].sent) = 1
         /\ req[r].sent[1].status = 500
         /\ req[r].sent[1].details = <<req[r].translateResult[1].message>>

(***************************************************************************)
(* C15. Within one request the steps occur only in the order validate,     *)
(* extract, summarize, translate, respond.  Every step of a request moves  *)
(* it forward in that order; the article fetch is made only once the three *)
(* validation checks have passed, the summarization call only once the     *)
(* fetch has returned a document with an article, the translation call     *)
(* only once the summarization call has returned a completion; each of the *)
(* three calls is made at most once, and none after the response.          *)
(***************************************************************************)
Rank(pc) ==
  CASE pc = "idle" -> 0
    [] pc = "fetching" -> 1
    [] pc = "summarizing" -> 2
    [] pc = "translating" -> 3
    [] pc = "done" -> 4

StepsInOrder(q, srv) ==
  /\ Len(q.fetches) <= 1
  /\ Len(q.chats) <= 2
  /\ \A i \in DOMAIN q.chats :
       q.chats[i].site = (IF i = 1 THEN "summarize" ELSE "translate")
  /\ q.fetches # <<>> =>
       /\ ~Falsy(q.body.url)
       /\ HasTruthyProperty(LanguageTable(srv), q.language)
       /\ HasTruthyProperty(LengthTable(srv), q.summaryLength)
  /\ Len(q.chats) >= 1 =>
       /\ q.fetches # <<>>
       /\ q.fetchResult # <<>> /\ q.fetchResult[1].ok
       /\ q.fetchResult[1].article # <<>>
  /\ Len(q.chats) >= 2 => ChatSucceeded(q.summarizeResult)
  /\ q.sent # <<>> => q.pc = "done"

C15_LinearOrder ==
  [][\A r \in Reqs :
       req'[r] # req[r] =>
         /\ Rank(req'[r].pc) > Rank(req[r].pc)
         /\ req[r].sent = <<>>
         /\ (req'[r].fetches # req[r].fetches) =>
              (req[r].pc = "idle" /\ req'[r].pc = "fetching")
         /\ (req'[r].chats # req[r].chats) =>
              \/ req[r].pc = "fetching" /\ req'[r].pc = "summarizing"
              \/ req[r].pc = "summarizing" /\ req'[r].pc = "translating"
         /\ StepsInOrder(req'[r], server)]_vars

\* A german request went through fetch, summarization and translation, one
\* call each, and was answered.
C15_Witness ==
  \E r \in Reqs :
    /\ req[r].pc = "done"
    /\ Len(req[r].fetches) = 1
    /\ Len(req[r].chats) = 2
    /\ req[r].translateResult # <<>>
    /\ Len(req[r].sent) = 1

(***************************************************************************)
(* C13. With no API credential configured the server still starts: it      *)
(* never crashes at start-up, and a request that reaches the summarization *)
(* call is answered 500.  Constructing the OpenAI client at module level   *)
(* throws when the key is undefined, before app.listen.                    *)
(***************************************************************************)
C13_MissingKeyNoStartupCrash ==
  proc.apiKey = Undefined =>
    /\ proc.state # "crashed"
    /\ \A r \in Reqs :
         req[r].summarizeResult # <<>> =>
           /\ Len(req[r].sent) = 1
           /\ req[r].sent[1].status = 500

(***************************************************************************)
(* C16. Every request ends with exactly one response: the handler never    *)
(* sends a second response (in particular not after an early 400), a       *)
(* request whose awaited call has failed has been answered, and every      *)
(* response to a failure, the error middleware's included, is a JSON body  *)
(* with an error field and a 4xx/5xx status.                               *)
(***************************************************************************)
C16_ExactlyOneResponse ==
  /\ \A r \in Reqs :
       /\ Len(req[r].sent) <= 1
       /\ (req[r].pc = "done") <=> (Len(req[r].sent) = 1)
       /\ req[r].pc \in {"idle", "fetching", "summarizing", "translating", "done"}
       /\ (\/ FetchFailed(r)
           \/ ChatFailed(req[r].summarizeResult)
           \/ ChatFailed(req[r].translateResult)) =>
            /\ Len(req[r].sent) = 1
            /\ req[r].sent[1].status \in 400..599
       /\ \A i \in DOMAIN req[r].sent :
            \/ req[r].sent[i].status = 200 /\ req[r].sent[i].summary # <<>>
            \/ req[r].sent[i].status \in 400..599 /\ req[r].sent[i].error # <<>>
       /\ req[r].pc = "fetching" =>
            \A result \in FetchResults : ENABLED FetchSettles(r, result)
       /\ req[r].pc = "summarizing" =>
            \A result \in ChatResults : ENABLED SummarizeSettles(r, result)
       /\ req[r].pc = "translating" =>
            \A result \in ChatResults : ENABLED TranslateSettles(r, result)
  /\ \A i \in DOMAIN proc.rejected :
       proc.rejected[i].status = 500 /\ proc.rejected[i].error # <<>>

\* A request whose translation call failed has been answered once, and a
\* malformed body has been answered by the error middleware.
C16_Witness ==
  /\ proc.rejected # <<>>
  /\ \E r \in Reqs :
       /\ req[r].pc = "done"
       /\ ChatFailed(req[r].translateResult)
       /\ Len(req[r].sent) = 1

(***************************************************************************)
(* C17. Concurrent requests are independent.  The state of each handler    *)
(* invocation, its outbound calls and its response included, is what a     *)
(* run of that request alone produces from its own body and the results    *)
(* of its own calls, whatever the other request has done; and a request    *)
(* waiting on a call can always continue, whatever state the other is in.  *)
(***************************************************************************)
Alone(srv, q) ==
  LET started == HandlerStart(srv, NoRequest, q.body)
      fetched == IF q.fetchResult = <<>> THEN started
                 ELSE AfterFetch(srv, started, q.fetchResult[1])
      summarized == IF q.summarizeResult = <<>> THEN fetched
                    ELSE AfterSummarize(srv, fetched, q.summarizeResult[1])
  IN IF q.translateResult = <<>> THEN summarized
     ELSE AfterTranslate(summarized, q.translateResult[1])

C17_RequestsIndependent ==
  \A r \in DOMAIN req :
    /\ req[r].pc # "idle" => req[r] = Alone(server, req[r])
    /\ req[r].pc = "idle" => req[r] = NoRequest
    /\ req[r].pc = "idle" =>
         \A body \in ConcurrentBodies : ENABLED Post(r, body)
    /\ req[r].pc = "fetching" =>
         \A result \in ConcurrentFetchResults : ENABLED FetchSettles(r, result)
    /\ req[r].pc = "summarizing" =>
         \A result \in ConcurrentChatResults : ENABLED SummarizeSettles(r, result)
    /\ req[r].pc = "translating" =>
         \A result \in ConcurrentChatResults : ENABLED TranslateSettles(r, result)

\* Request 1 was answered with a German summary after request 2, in English
\* and of another length, had started and while it is still being summarized.
C17_Witness ==
  /\ DOMAIN req = ConcurrentReqs
  /\ req[1].pc = "done"
  /\ req[1].language = "german"
  /\ req[1].summaryLength = "short"
  /\ Len(req[1].sent) = 1
  /\ req[1].sent[1].status = 200
  /\ req[2].pc = "summarizing"
  /\ req[2].language = "english"
  /\ req[2].summaryLength = "detailed"

(***************************************************************************)
(* C18. The length the user selected in the form is the length the server  *)
(* applies: the summarization call made for a submission carries the       *)
(* instruction and max_tokens of the tier selected when it was submitted.  *)
(* The form sends the choice under the key `length`; the server reads      *)
(* `summaryLength`, finds it undefined and applies medium.                 *)
(***************************************************************************)
C18_SelectedLengthApplied ==
  (client.awaiting = "response" /\ client.observed # 0) =>
    \A i \in ChatsAt(client.observed, "summarize") :
      req[client.observed].chats[i] =
        SummarizeRequest(server, req[client.observed].language,
                         client.submitted.summaryLength,
                         req[client.observed].articleContent)

(***************************************************************************)
(* C19. The recent-summaries list never holds more than 5 entries and is   *)
(* ordered newest first.  A successful submission puts its entry at the    *)
(* front, the earlier entries follow in their order, and the oldest is     *)
(* dropped when there were 5 already; a failed submission leaves the list  *)
(* as it was.  Apart from a successful submission the list changes only    *)
(* when the page is loaded: to the empty list of the first render, and     *)
(* then to the list the load effect read from localStorage.                *)
(***************************************************************************)
C19_RecentStep ==
  LET old == client.recentSummaries
      new == client'.recentSummaries
      success == client.summary = <<>> /\ client'.summary # <<>>
      failed == client.loading /\ ~client'.loading /\ ~success
                  /\ client'.effects # "mount"
      loaded == \/ client'.effects = "mount" /\ new = <<>>
                \/ client.queued # <<>> /\ new = client.queued[1]
                \/ /\ client.effects = "mount"
                   /\ new = RunEffects(client).queued[1]
  IN /\ Len(new) <= 5
     /\ \A i \in 1..(Len(new) - 1) : new[i].timestamp > new[i + 1].timestamp
     /\ success =>
          /\ client.awaiting = "response"
          /\ client.observed # 0
          /\ req[client.observed].sent[1].status = 200
          /\ Len(new) = IF Len(old) = 5 THEN 5 ELSE Len(old) + 1
          /\ new[1].url = client.submitted.url
          /\ new[1].language = client.submitted.language
          /\ new[1].summary = req[client.observed].sent[1].summary[1]
          /\ new[1].summary = client'.summary
          /\ \A i \in 2..Len(new) : new[i] = old[i - 1]
     /\ failed => new = old
     /\ new # old => success \/ loaded

C19_RecentSummaries == [][C19_RecentStep]_vars

\* The list held five entries, a submission succeeded and pushed the oldest
\* out, and the submission after it failed.
C19_Witness ==
  /\ Len(client.recentSummaries) = 5
  /\ client.recentSummaries[1].timestamp = 1
  /\ client.recentSummaries[5].timestamp = -3
  /\ client.error # ""
  /\ ~client.loading

====
